---- MODULE Spec2Model ----
(***************************************************************************)
(* Model of the catalog cleaner and comparator (src/app.py).               *)
(*                                                                         *)
(* A Python string is a sequence of one-character strings; the characters  *)
(* U+200B, U+00A0, U+FEFF and U+00B2 are written "ZWSP", "NBSP", "BOM" and *)
(* "SUP2".  A cell of a data frame is a record [t, v]: t = "str" with the  *)
(* text v, t = "nan" (a missing value) or t = "num" (a number, v its       *)
(* decimal digits).  A data frame is [cols, rows], every row a sequence of *)
(* cells aligned with cols.                                                *)
(***************************************************************************)
EXTENDS Integers, Sequences, FiniteSets, TLC

VARIABLES pc, isbn, cleaned, recleaned, raw_grid, hdr,
          file1, file2, rem_file, currency, d1, d2,
          new_items, inactive_items, bundle

vars == <<pc, isbn, cleaned, recleaned, raw_grid, hdr,
          file1, file2, rem_file, currency, d1, d2,
          new_items, inactive_items, bundle>>

\* ------------------------------------------------------------ bounds
\* Longest identifier string tried on clean_isbn.
MaxLen == 3
\* Most data rows of an input file.
MaxRows == 2
\* Most rows of preamble above the header row of an input file.
MaxLead == 1
\* Most filler rows above the rows tried on detect_header.
MaxPad == 20
\* Most non-filler rows of a grid tried on detect_header.
MaxTail == 2

\* ------------------------------------------------------------ characters
ZWSP == "ZWSP"
NBSP == "NBSP"
BOM == "BOM"
SUP2 == "SUP2"

LowerSeq == <<"a", "b", "c", "d", "e", "f", "g", "h", "i", "j", "k", "l", "m", "n", "o", "p", "q", "r", "s", "t", "u", "v", "w", "x", "y", "z">>
UpperSeq == <<"A", "B", "C", "D", "E", "F", "G", "H", "I", "J", "K", "L", "M", "N", "O", "P", "Q", "R", "S", "T", "U", "V", "W", "X", "Y", "Z">>
Range(s) == {s[i] : i \in 1..Len(s)}
Digits == {"0", "1", "2", "3", "4", "5", "6", "7", "8", "9"}
\* str.isspace(): the ordinary space and the no-break space among the
\* characters used here (U+200B and U+FEFF are format characters).
Whitespace == {" ", NBSP}
\* str.isnumeric(): the decimal digits and other numeric characters (U+00B2).
NumericChars == Digits \cup {SUP2}
\* \w of a Unicode pattern: alphanumerics and the underscore.
WordChars == Range(LowerSeq) \cup Range(UpperSeq) \cup Digits \cup {"_", SUP2}

\* ------------------------------------------------------------ cells
Str(s) == [t |-> "str", v |-> s]
NaN == [t |-> "nan", v |-> <<>>]
Num(s) == [t |-> "num", v |-> s]

\* ------------------------------------------------------------ str methods
Min(S) == CHOOSE m \in S : \A n \in S : m <= n
Max(S) == CHOOSE m \in S : \A n \in S : m >= n

strip(s) ==
    LET keep == {i \in 1..Len(s) : s[i] \notin Whitespace}
    IN  IF keep = {} THEN <<>> ELSE SubSeq(s, Min(keep), Max(keep))

replace(s, ch) == SelectSeq(s, LAMBDA c : c # ch)

isnumeric(s) == Len(s) > 0 /\ \A i \in 1..Len(s) : s[i] \in NumericChars

zfill(s, width) ==
    IF Len(s) >= width THEN s
    ELSE [i \in 1..width |->
             IF i <= width - Len(s) THEN "0" ELSE s[i - (width - Len(s))]]

upper(s) ==
    [i \in 1..Len(s) |->
        IF \E k \in 1..Len(LowerSeq) : LowerSeq[k] = s[i]
        THEN UpperSeq[CHOOSE k \in 1..Len(LowerSeq) : LowerSeq[k] = s[i]]
        ELSE s[i]]

\* sub in s
Contains(s, sub) ==
    \E i \in 1..(Len(s) - Len(sub) + 1) : SubSeq(s, i, i + Len(sub) - 1) = sub

\* str(x) of a cell: the text itself, "nan" for a missing value.
astype_str(cell) ==
    IF cell.t = "nan" THEN <<"n", "a", "n">> ELSE cell.v

\* ------------------------------------------------------------ clean_isbn
IsbnWidth == 13

clean_isbn(cell) ==
    IF cell.t = "nan" THEN <<>>
    ELSE LET x == replace(replace(replace(strip(astype_str(cell)), ZWSP), NBSP), BOM)
         IN  IF isnumeric(x) /\ Len(x) < IsbnWidth THEN zfill(x, IsbnWidth) ELSE x

\* ------------------------------------------------------------ schemas
REQUIRED_COLUMNS_ISBN ==
    << <<"I", "S", "B", "N", "1", "3">>, <<"T", "I", "T", "L", "E">>, <<"A", "U", "T", "H", "O", "R">>, <<"D", "I", "S", "C", "O", "U", "N", "T">>, <<"S", "T", "O", "C", "K">>, <<"C", "U", "R">>,
       <<"D", "I", "M", "1">>, <<"D", "I", "M", "2">>, <<"D", "I", "M", "3">>, <<"W", "E", "I", "G", "H", "T">>, <<"P", "U", "B", "L", "I", "S", "H", "E", "R">>, <<"I", "M", "P", "R", "I", "N", "T">> >>

REQUIRED_COLUMNS_EAN ==
    << <<"E", "A", "N">>, <<"T", "I", "T", "L", "E">>, <<"A", "U", "T", "H", "O", "R">>, <<"P", "U", "B", "L", "I", "S", "H", "E", "R">>, <<"Q", "T", "Y", "A", "V">>, <<"C", "U", "R">>, <<"P", "R", "I", "C", "E">>,
       <<"W", "G", "T", " ", "O", "Z", "S">>, <<"L", "E", "N", "G", "T", "H">>, <<"W", "I", "D", "T", "H">>, <<"H", "E", "I", "G", "H", "T">>, <<"C", "D">> >>

\* ------------------------------------------------------------ files
\* An uploaded file: absent (None), undecodable, or a grid of cells as
\* read with header=None and dtype=str; csv tells a name ending in ".csv"
\* from a workbook.
NoFile == [present |-> FALSE, ok |-> FALSE, csv |-> FALSE, grid |-> <<>>]
BadFile == [present |-> TRUE, ok |-> FALSE, csv |-> FALSE, grid |-> <<>>]
GridFile(g) == [present |-> TRUE, ok |-> TRUE, csv |-> FALSE, grid |-> g]
CsvFile(g) == [present |-> TRUE, ok |-> TRUE, csv |-> TRUE, grid |-> g]

EmptyDf == [cols |-> <<>>, rows |-> <<>>]

\* ------------------------------------------------------------ detect_header
ScanRows == 20

\* re.sub(r"[^\w\s]", "", s)
re_sub_nonword(s) == SelectSeq(s, LAMBDA c : c \in WordChars \cup Whitespace)

\* row.astype(str).str.upper().str.replace(...).str.strip(), one cell
clean_header_cell(cell) == strip(re_sub_nonword(upper(astype_str(cell))))

\* "ISBN13" in v.replace(" ", "") or "EAN" in v.replace(" ", "")
is_key_name(v) ==
    \/ Contains(replace(v, " "), <<"I", "S", "B", "N", "1", "3">>)
    \/ Contains(replace(v, " "), <<"E", "A", "N">>)

\* The index (from 0) of the header row, or the KeyError.
detect_header(file) ==
    IF ~file.ok THEN [err |-> "decode", row |-> -1]
    ELSE LET n == IF Len(file.grid) < ScanRows THEN Len(file.grid) ELSE ScanRows
             df == SubSeq(file.grid, 1, n)
             hits == {i \in 1..Len(df) :
                        \E j \in 1..Len(df[i]) : is_key_name(clean_header_cell(df[i][j]))}
         IN  IF hits = {} THEN [err |-> "header", row |-> -1]
             ELSE [err |-> "", row |-> Min(hits) - 1]

\* ------------------------------------------------------------ data frames
ColIndex(cols, name) == CHOOSE j \in 1..Len(cols) : cols[j] = name

\* The first element of s satisfying Test, or <<>> (None).
FirstMatch(s, Test(_)) ==
    LET hits == {j \in 1..Len(s) : Test(s[j])}
    IN  IF hits = {} THEN <<>> ELSE s[Min(hits)]

\* df[mask]: the rows whose mask entry is TRUE, in order.
RECURSIVE boolean_index(_, _)
boolean_index(rows, mask) ==
    IF rows = <<>> THEN <<>>
    ELSE (IF Head(mask) THEN <<Head(rows)>> ELSE <<>>)
         \o boolean_index(Tail(rows), Tail(mask))

\* df[name] = df[name].apply(F)
apply_column(df, name, F(_)) ==
    LET k == ColIndex(df.cols, name)
    IN  [df EXCEPT !.rows =
            [i \in 1..Len(df.rows) |-> [df.rows[i] EXCEPT ![k] = F(df.rows[i][k])]]]

RECURSIVE lstrip_zeros(_)
lstrip_zeros(s) ==
    IF Len(s) > 1 /\ Head(s) = "0" THEN lstrip_zeros(Tail(s)) ELSE s

\* pd.to_numeric(errors="coerce") of one cell: an unsigned integer literal
\* becomes a number, other text and missing values become NaN.
to_numeric(cell) ==
    IF cell.t = "num" THEN cell
    ELSE IF /\ cell.t = "str"
            /\ Len(cell.v) > 0
            /\ \A i \in 1..Len(cell.v) : cell.v[i] \in Digits
    THEN Num(lstrip_zeros(cell.v))
    ELSE NaN

\* The name pandas gives a column whose header cell is empty.
column_name(cell, j) ==
    IF cell.t = "nan" THEN <<"U", "n", "n", "a", "m", "e", "d", ":", " ">> \o <<ToString(j - 1)>> ELSE cell.v

\* df.columns.str.strip().str.upper().str.replace(...).str.strip(), one name
clean_column_name(s) == strip(re_sub_nonword(upper(strip(s))))

is_stock_name(v) ==
    \/ Contains(replace(v, " "), <<"S", "T", "O", "C", "K">>)
    \/ Contains(replace(v, " "), <<"Q", "T", "Y", "A", "V">>)

clean_isbn_cell(cell) == Str(clean_isbn(cell))

\* reader(file_obj, dtype=str, header=hdr) and the cleaning of the column names
read_frame(file, hdr_row) ==
    [cols |-> [j \in 1..Len(file.grid[hdr_row + 1]) |->
                  clean_column_name(column_name(file.grid[hdr_row + 1][j], j))],
     rows |-> SubSeq(file.grid, hdr_row + 2, Len(file.grid))]

\* The stock column made numeric, when there is one.
coerce_stock(df, stock_column) ==
    IF stock_column # <<>> THEN apply_column(df, stock_column, to_numeric) ELSE df

\* The rest of process_file once the key column is looked up.
process_keyed(df, key_column) ==
    IF key_column = <<>>
    THEN [err |-> "key", df |-> EmptyDf, key_column |-> <<>>]
    ELSE [err |-> "",
          df |-> coerce_stock(apply_column(df, key_column, clean_isbn_cell),
                              FirstMatch(df.cols, is_stock_name)),
          key_column |-> key_column]

process_frame(df) == process_keyed(df, FirstMatch(df.cols, is_key_name))

\* The rest of process_file once the header row is known.  read_csv has no
\* keyword "errors": the call made for a ".csv" name raises TypeError.
process_detected(file, h) ==
    IF h.err # "" THEN [err |-> h.err, df |-> EmptyDf, key_column |-> <<>>]
    ELSE IF file.csv THEN [err |-> "type", df |-> EmptyDf, key_column |-> <<>>]
    ELSE process_frame(read_frame(file, h.row))

\* (df, key_column), or the error raised.
process_file(file) == process_detected(file, detect_header(file))

\* ------------------------------------------------------------ extract_isbns
\* df.values.flatten()
Cells(grid) == UNION {Range(grid[i]) : i \in 1..Len(grid)}

extract_isbns(file) ==
    IF ~file.ok THEN {}
    ELSE {clean_isbn(c) : c \in {c \in Cells(file.grid) : isnumeric(astype_str(c))}}

\* ------------------------------------------------------------ clean_file
\* series.isin(values), one cell: equal to one of the strings.
isin(cell, values) == cell.t = "str" /\ cell.v \in values

\* df[~df[key_column].isin(remove_set)]
drop_excluded(df, key_column, remove_set) ==
    LET k == ColIndex(df.cols, key_column)
    IN  [df EXCEPT !.rows =
            boolean_index(df.rows,
                [i \in 1..Len(df.rows) |-> ~isin(df.rows[i][k], remove_set)])]

required_columns_of(df) ==
    IF <<"I", "S", "B", "N", "1", "3">> \in Range(df.cols) THEN REQUIRED_COLUMNS_ISBN ELSE REQUIRED_COLUMNS_EAN

\* df[[x for x in required_columns if x in df.columns]]
project(df, required_columns) ==
    LET names == SelectSeq(required_columns, LAMBDA x : x \in Range(df.cols))
    IN  [cols |-> names,
         rows |-> [i \in 1..Len(df.rows) |->
                     [k \in 1..Len(names) |-> df.rows[i][ColIndex(df.cols, names[k])]]]]

\* assign_cur with the assignment made only when the column is missing.
assign_cur_keep(df, cur) ==
    LET cols == IF <<"C", "U", "R">> \in Range(df.cols) THEN df.cols ELSE Append(df.cols, <<"C", "U", "R">>)
    IN  [cols |-> cols,
         rows |-> [i \in 1..Len(df.rows) |->
                     [k \in 1..Len(cols) |->
                        IF k > Len(df.cols) THEN Str(cur) ELSE df.rows[i][k]]]]

\* if "CUR" not in df.columns: df["CUR"] = "";  df["CUR"] = cur
assign_cur(df, cur) ==
    LET cols == IF <<"C", "U", "R">> \in Range(df.cols) THEN df.cols ELSE Append(df.cols, <<"C", "U", "R">>)
    IN  [cols |-> cols,
         rows |-> [i \in 1..Len(df.rows) |->
                     [k \in 1..Len(cols) |->
                        IF cols[k] = <<"C", "U", "R">> THEN Str(cur) ELSE df.rows[i][k]]]]

\* df.reindex(columns=required_columns, fill_value="")
reindex(df, required_columns) ==
    [cols |-> required_columns,
     rows |-> [i \in 1..Len(df.rows) |->
                 [k \in 1..Len(required_columns) |->
                    IF required_columns[k] \in Range(df.cols)
                    THEN df.rows[i][ColIndex(df.cols, required_columns[k])]
                    ELSE Str(<<>>)]]]

\* if rem_obj: df = df[~df[key_column].isin(extract_isbns(rem_obj))]
exclude(p, rem_obj) ==
    IF rem_obj.present THEN drop_excluded(p.df, p.key_column, extract_isbns(rem_obj))
    ELSE p.df

\* The projection, the currency and the reindexing.
reshape(df, required_columns, cur) ==
    reindex(assign_cur(project(df, required_columns), cur), required_columns)

clean_processed(p, cur, rem_obj) ==
    IF p.err # "" THEN [err |-> p.err, df |-> EmptyDf]
    ELSE [err |-> "", df |-> reshape(exclude(p, rem_obj), required_columns_of(p.df), cur)]

\* The cleaned data frame, or the error raised.
clean_file(file, cur, rem_obj) == clean_processed(process_file(file), cur, rem_obj)

\* ------------------------------------------------------------ comparison
\* not_in_other with the keys compared row against row.
not_in_other_aligned(d, other) ==
    [d EXCEPT !.rows =
        boolean_index(d.rows,
            [i \in 1..Len(d.rows) |->
                i > Len(other.rows) \/ d.rows[i][1] # other.rows[i][1]])]

\* d[~d[d.columns[0]].isin(other[other.columns[0]])]
not_in_other(d, other) ==
    LET values == {other.rows[i][1] : i \in 1..Len(other.rows)}
    IN  [d EXCEPT !.rows =
            boolean_index(d.rows, [i \in 1..Len(d.rows) |-> d.rows[i][1] \notin values])]

\* df.to_excel(writer, index=False): one sheet, the header row then the rows.
to_excel_bytes(df) == [sheet |-> <<df.cols>> \o df.rows]

\* ------------------------------------------------------------ inputs
SeqsUpTo(S, n) == UNION {[1..k -> S] : k \in 0..n}

\* Identifier strings tried on clean_isbn.
IsbnAlphabet == {"1", "a", " ", ZWSP, NBSP, BOM, SUP2}
IsbnInputs == {NaN} \cup {Str(s) : s \in SeqsUpTo(IsbnAlphabet, MaxLen)}

\* Grids tried on detect_header: filler rows, then rows of one cell each.
HeaderCellVals ==
    {Str(<<"T", "i", "t", "l", "e">>), Str(<<"I", "S", "B", "N">>), Str(<<"i", "s", "b", "n", " ", "1", "3">>), Str(<<"O", "c", "e", "a", "n">>), Str(<<"E", ".", "A", ".", "N">>), NaN}
FillerRows(n) == [i \in 1..n |-> <<Str(<<"C", "a", "t", "a", "l", "o", "g">>)>>]
HeaderGrids ==
    {FillerRows(p) \o [i \in 1..Len(tail) |-> <<tail[i]>>] :
        p \in 0..MaxPad, tail \in SeqsUpTo(HeaderCellVals, MaxTail)}

\* Input files: optional preamble rows, a header row of one or two names,
\* and data rows; every cell of a data row holds the row's value.
HeaderNames ==
    {<<"i", "s", "b", "n", "1", "3">>, <<"E", "A", "N", "#">>, <<"E", "A", "N", "1", "3">>, <<"I", "S", "B", "N">>, <<" ", "T", "i", "t", "l", "e", " ">>, <<"C", "U", "R">>, <<"S", "t", "o", "c", "k">>}
Headers ==
    {<<a>> : a \in HeaderNames}
    \cup {<<a, b>> : <<a, b>> \in {ab \in HeaderNames \X HeaderNames : ab[1] # ab[2]}}
RowVals == {Str(<<"1", "2">>), Str(<<"x", "7">>), NaN}
MakeGrid(lead, header, vals) ==
    [i \in 1..lead |-> [j \in 1..Len(header) |-> Str(<<"C", "a", "t", "a", "l", "o", "g">>)]]
    \o << [j \in 1..Len(header) |-> Str(header[j])] >>
    \o [i \in 1..Len(vals) |-> [j \in 1..Len(header) |-> vals[i]]]
Files ==
    {BadFile}
    \cup {GridFile(MakeGrid(lead, header, vals)) :
            lead \in 0..MaxLead, header \in Headers, vals \in SeqsUpTo(RowVals, MaxRows)}
    \cup {CsvFile(MakeGrid(0, header, <<v>>)) : header \in Headers, v \in RowVals}

\* Exclusion files.
RemCellVals == {Str(<<"1", "2">>), Str(<<" ", "1", "2">>), Str(<<"x", "7">>), NaN}
RemFiles ==
    {NoFile, BadFile}
    \cup {GridFile(<< <<c>> >>) : c \in RemCellVals}
    \cup {GridFile(<< <<Str(<<"1", "2">>), Str(<<"x", "7">>)>>, <<Str(<<"1", "2">>), NaN>> >>)}

Currencies == {<<"U", "S", "D">>, <<"G", "B", "P">>}

\* The two files of a comparison run.
PipelineHeaders == {<<<<"i", "s", "b", "n", "1", "3">>>>, <<<<"E", "A", "N", "#">>>>, <<<<" ", "T", "i", "t", "l", "e", " ">>>>}
PipelineFiles ==
    {NoFile, BadFile}
    \cup {GridFile(MakeGrid(0, header, vals)) :
            header \in PipelineHeaders, vals \in SeqsUpTo(RowVals, MaxRows)}
    \cup {CsvFile(MakeGrid(0, header, <<v>>)) : header \in PipelineHeaders, v \in RowVals}
PipelineRemFiles == {NoFile, GridFile(<< <<Str(<<"1", "2">>)>> >>)}

\* ------------------------------------------------------------ initial states
NoHeaderYet == [err |-> "", row |-> -1]

IdleIsbn ==
    /\ isbn = NaN
    /\ cleaned = <<>>
    /\ recleaned = <<>>

IdleHeader ==
    /\ raw_grid = <<>>
    /\ hdr = NoHeaderYet

NoResults ==
    /\ d1 = EmptyDf
    /\ d2 = EmptyDf
    /\ new_items = EmptyDf
    /\ inactive_items = EmptyDf
    /\ bundle = {}

\* A comparison run: the uploads and the currency chosen, the button not
\* yet pressed.
Init ==
    /\ pc = "idle"
    /\ file1 \in PipelineFiles
    /\ file2 \in PipelineFiles
    /\ rem_file \in PipelineRemFiles
    /\ currency \in Currencies
    /\ NoResults
    /\ IdleIsbn
    /\ IdleHeader

\* clean_file about to run on one file.
InitFile ==
    /\ pc = "clean1"
    /\ file1 \in Files
    /\ file2 = NoFile
    /\ rem_file \in RemFiles
    /\ currency \in Currencies
    /\ NoResults
    /\ IdleIsbn
    /\ IdleHeader

\* clean_isbn about to run on one value.
InitIsbn ==
    /\ pc = "isbn0"
    /\ isbn \in IsbnInputs
    /\ cleaned = <<>>
    /\ recleaned = <<>>
    /\ file1 = NoFile
    /\ file2 = NoFile
    /\ rem_file = NoFile
    /\ currency = <<>>
    /\ NoResults
    /\ IdleHeader

\* detect_header about to run on one grid.
InitHeader ==
    /\ pc = "hdr0"
    /\ raw_grid \in HeaderGrids
    /\ hdr = NoHeaderYet
    /\ file1 = NoFile
    /\ file2 = NoFile
    /\ rem_file = NoFile
    /\ currency = <<>>
    /\ NoResults
    /\ IdleIsbn

\* ------------------------------------------------------------ actions
\* The button: both comparison files are required.
Start ==
    /\ pc = "idle"
    /\ pc' = IF file1.present /\ file2.present THEN "clean1" ELSE "rejected"
    /\ UNCHANGED <<isbn, cleaned, recleaned, raw_grid, hdr, file1, file2, rem_file,
                   currency, d1, d2, new_items, inactive_items, bundle>>

\* d1 = clean_file(file1, currency, rem_file), inside the try block.
CleanFirstFile ==
    /\ pc = "clean1"
    /\ \E r \in {clean_file(file1, currency, rem_file)} :
          IF r.err # ""
          THEN pc' = "error" /\ d1' = d1
          ELSE pc' = "clean2" /\ d1' = r.df
    /\ UNCHANGED <<isbn, cleaned, recleaned, raw_grid, hdr, file1, file2, rem_file,
                   currency, d2, new_items, inactive_items, bundle>>

\* CleanSecondFile with the error of the second file swallowed.
CleanSecondFile_swallow ==
    /\ pc = "clean2"
    /\ pc' = "compare"
    /\ d2' = clean_file(file2, currency, rem_file).df
    /\ UNCHANGED <<isbn, cleaned, recleaned, raw_grid, hdr, file1, file2, rem_file,
                   currency, d1, new_items, inactive_items, bundle>>

\* d2 = clean_file(file2, currency, rem_file)
CleanSecondFile ==
    /\ pc = "clean2"
    /\ \E r \in {clean_file(file2, currency, rem_file)} :
          IF r.err # ""
          THEN pc' = "error" /\ d2' = d2
          ELSE pc' = "compare" /\ d2' = r.df
    /\ UNCHANGED <<isbn, cleaned, recleaned, raw_grid, hdr, file1, file2, rem_file,
                   currency, d1, new_items, inactive_items, bundle>>

\* new_items and inactive_items, keyed by each frame's first column.
Compare ==
    /\ pc = "compare"
    /\ new_items' = not_in_other(d2, d1)
    /\ inactive_items' = not_in_other(d1, d2)
    /\ pc' = "package"
    /\ UNCHANGED <<isbn, cleaned, recleaned, raw_grid, hdr, file1, file2, rem_file,
                   currency, d1, d2, bundle>>

\* The four workbooks written to the archive.
Package ==
    /\ pc = "package"
    /\ bundle' =
         { [name |-> "cleaned/Cleaned_File1.xlsx", data |-> to_excel_bytes(d1)],
           [name |-> "cleaned/Cleaned_File2.xlsx", data |-> to_excel_bytes(d2)],
           [name |-> "comparison/New_Items.xlsx", data |-> to_excel_bytes(new_items)],
           [name |-> "comparison/Inactive_Items.xlsx",
            data |-> to_excel_bytes(inactive_items)] }
    /\ pc' = "done"
    /\ UNCHANGED <<isbn, cleaned, recleaned, raw_grid, hdr, file1, file2, rem_file,
                   currency, d1, d2, new_items, inactive_items>>

ApplyCleanIsbn ==
    /\ pc = "isbn0"
    /\ cleaned' = clean_isbn(isbn)
    /\ pc' = "isbn1"
    /\ UNCHANGED <<isbn, recleaned, raw_grid, hdr, file1, file2, rem_file,
                   currency, d1, d2, new_items, inactive_items, bundle>>

ReapplyCleanIsbn ==
    /\ pc = "isbn1"
    /\ recleaned' = clean_isbn(Str(cleaned))
    /\ pc' = "isbn2"
    /\ UNCHANGED <<isbn, cleaned, raw_grid, hdr, file1, file2, rem_file,
                   currency, d1, d2, new_items, inactive_items, bundle>>

DetectHeader ==
    /\ pc = "hdr0"
    /\ hdr' = detect_header(GridFile(raw_grid))
    /\ pc' = "hdr1"
    /\ UNCHANGED <<isbn, cleaned, recleaned, raw_grid, file1, file2, rem_file,
                   currency, d1, d2, new_items, inactive_items, bundle>>

\* ------------------------------------------------------------ specifications
Next == Start \/ CleanFirstFile \/ CleanSecondFile \/ Compare \/ Package
Spec == Init /\ [][Next]_vars

NextFile == CleanFirstFile
SpecFile == InitFile /\ [][NextFile]_vars

NextIsbn == ApplyCleanIsbn \/ ReapplyCleanIsbn
SpecIsbn == InitIsbn /\ [][NextIsbn]_vars

NextHeader == DetectHeader
SpecHeader == InitHeader /\ [][NextHeader]_vars

\* ------------------------------------------------------------ properties
\* The cleaned column names of the header row detect_header finds.
InputColumns(file) == read_frame(file, detect_header(file).row).cols

\* C1: New_Items is exactly the rows of the second table whose identifier
\* (first column) occurs nowhere in the first table's identifier column,
\* Inactive_Items exactly the rows of the first table whose identifier occurs
\* nowhere in the second's; source order and all columns are kept, duplicate
\* rows are not collapsed, a table compared with itself gives two empty
\* results, and empty identifiers match each other.
C1_ComparisonIsSetDifference ==
    pc \in {"package", "done"} =>
        /\ new_items.cols = d2.cols
        /\ new_items.rows =
              SelectSeq(d2.rows,
                  LAMBDA r : \A i \in 1..Len(d1.rows) : d1.rows[i][1] # r[1])
        /\ inactive_items.cols = d1.cols
        /\ inactive_items.rows =
              SelectSeq(d1.rows,
                  LAMBDA r : \A i \in 1..Len(d2.rows) : d2.rows[i][1] # r[1])
        /\ (d1 = d2 => new_items.rows = <<>> /\ inactive_items.rows = <<>>)
        /\ ((\E i \in 1..Len(d1.rows) : d1.rows[i][1] = Str(<<>>))
               => \A i \in 1..Len(new_items.rows) : new_items.rows[i][1] # Str(<<>>))

\* A run whose New_Items keeps two equal rows of the second table and whose
\* Inactive_Items is not empty.
C1_Witness ==
    /\ pc = "done"
    /\ Len(new_items.rows) = 2
    /\ new_items.rows[1] = new_items.rows[2]
    /\ Len(inactive_items.rows) >= 1
    /\ Len(d2.rows) = 2

\* The identifier normalizer as the specification words it: invisible
\* characters removed and the ends trimmed, then a string of decimal digits
\* shorter than 13 padded with zeros.
RefNormalize(cell) ==
    IF cell.t = "nan" THEN <<>>
    ELSE LET c == strip(SelectSeq(cell.v, LAMBDA ch : ch \notin {ZWSP, NBSP, BOM}))
         IN  IF Len(c) > 0 /\ Len(c) < IsbnWidth /\ \A i \in 1..Len(c) : c[i] \in Digits
             THEN [i \in 1..IsbnWidth |->
                      IF i <= IsbnWidth - Len(c) THEN "0" ELSE c[i - (IsbnWidth - Len(c))]]
             ELSE c

\* C2: clean_isbn(x) equals the reference result for every x, and never has
\* leading or trailing whitespace.
C2_MatchesReference ==
    pc \in {"isbn1", "isbn2"} =>
        /\ cleaned = RefNormalize(isbn)
        /\ cleaned # <<>> =>
              cleaned[1] \notin Whitespace /\ cleaned[Len(cleaned)] \notin Whitespace

\* C3: clean_isbn(clean_isbn(x)) = clean_isbn(x) for every x over digits,
\* letters, spaces and the three invisible characters.
C3_Idempotent ==
    (pc = "isbn2" /\ SUP2 \notin Range(isbn.v)) => recleaned = cleaned

\* A header cell as the specification cleans it: uppercased, punctuation
\* removed, internal spaces removed; identifier-like when it contains
\* ISBN13, EAN or ISBN.
IsIdentifierCell(cell) ==
    LET v == replace(strip(re_sub_nonword(upper(astype_str(cell)))), " ")
    IN  Contains(v, <<"I", "S", "B", "N", "1", "3">>) \/ Contains(v, <<"E", "A", "N">>) \/ Contains(v, <<"I", "S", "B", "N">>)

\* C4: detect_header returns the index of the first scanned row holding a
\* cell whose cleaned text contains ISBN13, EAN or ISBN.
C4_FirstIdentifierRow ==
    pc = "hdr1" =>
        LET n == IF Len(raw_grid) < ScanRows THEN Len(raw_grid) ELSE ScanRows
            hits == {i \in 1..n :
                       \E j \in 1..Len(raw_grid[i]) : IsIdentifierCell(raw_grid[i][j])}
        IN  hits # {} => hdr.err = "" /\ hdr.row = Min(hits) - 1

HasColumn(cols, pat) == \E j \in 1..Len(cols) : Contains(replace(cols[j], " "), pat)
FirstColumn(cols, pat) ==
    cols[Min({j \in 1..Len(cols) : Contains(replace(cols[j], " "), pat)})]

\* The key column by the stated priority: ISBN13 over EAN over ISBN.
PriorityKey(cols) ==
    IF HasColumn(cols, <<"I", "S", "B", "N", "1", "3">>) THEN FirstColumn(cols, <<"I", "S", "B", "N", "1", "3">>)
    ELSE IF HasColumn(cols, <<"E", "A", "N">>) THEN FirstColumn(cols, <<"E", "A", "N">>)
    ELSE IF HasColumn(cols, <<"I", "S", "B", "N">>) THEN FirstColumn(cols, <<"I", "S", "B", "N">>)
    ELSE <<>>

\* C5: the key column is the first column containing ISBN13 if there is one,
\* else the first containing EAN, else the first containing ISBN, whatever
\* the columns' positions; with none the file fails for want of a key column
\* (of a workbook whose header row was found).
C5_KeyPriority ==
    (pc \in {"clean2", "error"} /\ ~file1.csv /\ detect_header(file1).err = "") =>
        IF PriorityKey(InputColumns(file1)) = <<>>
        THEN process_file(file1).err = "key"
        ELSE /\ process_file(file1).err = ""
             /\ process_file(file1).key_column = PriorityKey(InputColumns(file1))

\* C6: a file cleaned without error has exactly the canonical columns of its
\* schema variant in their order, the canonical columns absent from the
\* input filled with the empty string, and CUR equal to the supplied
\* currency in every row.
C6_CanonicalColumns ==
    pc = "clean2" =>
        LET incols == Range(InputColumns(file1))
        IN  /\ d1.cols = IF <<"I", "S", "B", "N", "1", "3">> \in incols
                         THEN REQUIRED_COLUMNS_ISBN ELSE REQUIRED_COLUMNS_EAN
            /\ \A i \in 1..Len(d1.rows) :
                  /\ Len(d1.rows[i]) = Len(d1.cols)
                  /\ \A k \in 1..Len(d1.cols) :
                        IF d1.cols[k] = <<"C", "U", "R">>
                        THEN d1.rows[i][k] = Str(currency)
                        ELSE d1.cols[k] \notin incols => d1.rows[i][k] = Str(<<>>)

\* A file with a CUR column of its own and an exclusion file, cleaned to a
\* table that still has a row.
C6_Witness ==
    /\ pc = "clean2"
    /\ rem_file.present
    /\ <<"C", "U", "R">> \in Range(InputColumns(file1))
    /\ Len(d1.rows) >= 1
    /\ currency = <<"G", "B", "P">>

\* The exclusion set as the specification words it: the normalized cells
\* whose stripped content is all decimal digits.
StatedExclusionSet(file) ==
    {clean_isbn(c) :
        c \in {c \in Cells(file.grid) :
                 /\ c.t = "str"
                 /\ strip(c.v) # <<>>
                 /\ \A i \in 1..Len(strip(c.v)) : strip(c.v)[i] \in Digits}}

KeyValues(p) ==
    [i \in 1..Len(p.df.rows) |-> p.df.rows[i][ColIndex(p.df.cols, p.key_column)].v]

\* C7: with an exclusion file that decodes, the cleaned table is exactly the
\* input rows whose normalized key is not in the stated exclusion set, in
\* their order.
C7_ExclusionApplied ==
    (pc = "clean2" /\ rem_file.present /\ rem_file.ok) =>
        d1.rows =
            boolean_index(clean_file(file1, currency, NoFile).df.rows,
                [i \in 1..Len(process_file(file1).df.rows) |->
                    KeyValues(process_file(file1))[i] \notin StatedExclusionSet(rem_file)])

Fatal(file) == process_file(file).err # ""

BundleNames ==
    {"cleaned/Cleaned_File1.xlsx", "cleaned/Cleaned_File2.xlsx",
     "comparison/New_Items.xlsx", "comparison/Inactive_Items.xlsx"}

\* C8: a run in which either file has a fatal error goes no further than the
\* error state and produces no output table; the bundle exists only in runs
\* where both files were normalized, and then holds all four tables.
C8_NoPartialOutput ==
    /\ bundle # {} => pc = "done"
    /\ pc = "error" => new_items = EmptyDf /\ inactive_items = EmptyDf
    /\ pc = "done" =>
          /\ {b.name : b \in bundle} = BundleNames
          /\ Cardinality(bundle) = 4
    /\ pc \in {"clean2", "compare", "package", "done"} => ~Fatal(file1)
    /\ pc \in {"compare", "package", "done"} => ~Fatal(file2)

\* A run that fails on the second file after the first was cleaned.
C8_Witness ==
    /\ pc = "error"
    /\ ~Fatal(file1)
    /\ file2.ok /\ Fatal(file2)
    /\ Len(d1.rows) >= 1
    /\ bundle = {}

\* C9: a key column that is the identifier column of no known layout makes
\* the file fail; no variant is selected by default.
C9_SchemaNotMatched ==
    (/\ pc \in {"clean2", "error"}
     /\ process_file(file1).err = ""
     /\ process_file(file1).key_column \notin {REQUIRED_COLUMNS_ISBN[1], REQUIRED_COLUMNS_EAN[1]})
        => pc = "error"

\* C10: the first column of a cleaned table is the key column process_file
\* detected and holds its normalized identifiers row for row.
C10_KeyIsFirstColumn ==
    pc = "clean2" =>
        /\ d1.cols[1] = process_file(file1).key_column
        /\ [i \in 1..Len(d1.rows) |-> d1.rows[i][1].v]
              = KeyValues([process_file(file1) EXCEPT
                              !.df = exclude(process_file(file1), rem_file)])
====
